---- MODULE Spec2Model ----
(***************************************************************************)
(* Model of the Sifitlier DLP detector (src/backend/dlp_detector.py).      *)
(*                                                                         *)
(* A text is a sequence of one-character strings.  Offsets are 0-based     *)
(* and half-open as in Python: the span (start, end) of a text t is        *)
(* SubSeq(t, start + 1, end).  Confidences are kept exactly: a confidence  *)
(* is a number of hundredths divided by a power of two.                    *)
(***************************************************************************)
EXTENDS Integers, Sequences, FiniteSets, TLC

(***************************************************************************)
(* Characters                                                              *)
(***************************************************************************)
LowerSeq ==
  <<"a","b","c","d","e","f","g","h","i","j","k","l","m",
    "n","o","p","q","r","s","t","u","v","w","x","y","z">>
UpperSeq ==
  <<"A","B","C","D","E","F","G","H","I","J","K","L","M",
    "N","O","P","Q","R","S","T","U","V","W","X","Y","Z">>
Lower == {LowerSeq[i] : i \in 1..26}
Upper == {UpperSeq[i] : i \in 1..26}
Digit == {"0","1","2","3","4","5","6","7","8","9"}
\* Characters for which str.isdigit() is true but int() raises ValueError
\* (Unicode category No, e.g. U+00B2 SUPERSCRIPT TWO).
OtherDigit == {"U+00B2"}
\* \s of the re module
Space == {" ", "\t", "\n"}
\* \w of the re module
WordChar == Lower \cup Upper \cup Digit \cup OtherDigit \cup {"_"}

\* re.IGNORECASE: a literal is compared through its lower-case form, a
\* character class is asked for the character and for its other case
ToLower == [c \in Upper |-> LowerSeq[CHOOSE i \in 1..26 : UpperSeq[i] = c]]
ToUpper == [c \in Lower |-> UpperSeq[CHOOSE i \in 1..26 : LowerSeq[i] = c]]
Fold(c) == IF c \in Upper THEN ToLower[c] ELSE c
Swap(c) == IF c \in Upper THEN ToLower[c] ELSE IF c \in Lower THEN ToUpper[c] ELSE c

(***************************************************************************)
(* Regular expressions of the catalog, as syntax trees, and the            *)
(* backtracking matcher of Python's re module.                             *)
(***************************************************************************)
Inf == -1

\* a sequence given as a function, as a tuple
Tup(f) == f \o <<>>

Ch(cs)         == [t |-> "ch", s |-> cs]       \* one character of the class S
NotCh(cs)      == [t |-> "not", s |-> cs]      \* one character outside S
WB             == [t |-> "wb"]                 \* \b
Cat(l)         == [t |-> "cat", l |-> l]       \* concatenation
Alt(l)         == [t |-> "alt", l |-> l]       \* a|b|...
Rep(r, lo, hi) == [t |-> "rep", r |-> r, lo |-> lo, hi |-> hi]  \* r{lo,hi}, greedy
Lit(w)         == [t |-> "lit", w |-> w]       \* a literal word
Opt(r)         == Rep(r, 0, 1)
Star(r)        == Rep(r, 0, Inf)
Plus(r)        == Rep(r, 1, Inf)
N(r, n)        == Rep(r, n, n)

AtBoundary(txt, p) ==
  LET before == p >= 1 /\ txt[p] \in WordChar
      after  == p < Len(txt) /\ txt[p + 1] \in WordChar
  IN before # after

\* one character against a character class
Matches1(r, txt, q) ==
  /\ q >= 1 /\ q <= Len(txt)
  /\ (r.t = "ch") = (txt[q] \in r.s \/ Swap(txt[q]) \in r.s)

\* the length of the longest run of at most hi characters of the class r
\* that starts at offset p
Run(r, txt, p, hi) ==
  LET cap == IF hi = Inf \/ hi > Len(txt) - p THEN Len(txt) - p ELSE hi
  IN CHOOSE k \in 0..cap :
       /\ \A i \in 1..k : Matches1(r, txt, p + i)
       /\ k = cap \/ ~Matches1(r, txt, p + k + 1)

Before(a, b) == a[1] < b[1] \/ (a[1] = b[1] /\ a[2] < b[2])

\* The concatenation of the sequences per[1], per[2], ..., each element kept
\* at its first occurrence only.
Merge(per) ==
  LET idx     == UNION {{<<i, j>> : j \in 1..Len(per[i])} : i \in 1..Len(per)}
      val(ij) == per[ij[1]][ij[2]]
      first   == {ij \in idx : \A kl \in idx : val(kl) = val(ij) => ~Before(kl, ij)}
  IN Tup([k \in 1..Cardinality(first) |->
            val(CHOOSE ij \in first :
                  Cardinality({kl \in first : Before(kl, ij)}) = k - 1)])

RECURSIVE Ends(_, _, _), EndsCat(_, _, _), EndsRep(_, _, _, _, _)
\* Ends(r, txt, p): the offsets at which a match of r that starts at offset p
\* can end, in the order in which the backtracking matcher tries them.
Ends(r, txt, p) ==
  CASE r.t \in {"ch", "not"} -> IF Matches1(r, txt, p + 1) THEN <<p + 1>> ELSE <<>>
    [] r.t = "lit" -> IF /\ p + Len(r.w) <= Len(txt)
                         /\ \A i \in 1..Len(r.w) : Fold(txt[p + i]) = Fold(r.w[i])
                      THEN <<p + Len(r.w)>> ELSE <<>>
    [] r.t = "wb"  -> IF AtBoundary(txt, p) THEN <<p>> ELSE <<>>
    [] r.t = "cat" -> EndsCat(r.l, txt, <<p>>)
    [] r.t = "alt" -> Merge(Tup([i \in 1..Len(r.l) |-> Ends(r.l[i], txt, p)]))
    [] r.t = "rep" -> EndsRep(r.r, r.lo, r.hi, txt, p)

\* the elements of l one after the other, from each of the offsets starts
EndsCat(l, txt, starts) ==
  IF Len(l) = 0 \/ Len(starts) = 0 THEN starts
  ELSE EndsCat(Tail(l), txt,
               IF Len(starts) = 1 THEN Ends(Head(l), txt, starts[1])
               ELSE Merge(Tup([i \in 1..Len(starts) |-> Ends(Head(l), txt, starts[i])])))

\* greedy repetition: one more iteration is tried before stopping; an
\* iteration that consumes nothing ends the repetition
EndsRep(r, lo, hi, txt, p) ==
  IF r.t \in {"ch", "not"}
  THEN \* a repeated character class: the longest run first, then shorter ones
       LET k == Run(r, txt, p, hi)
       IN IF k < lo THEN <<>> ELSE Tup([i \in 1..(k - lo + 1) |-> p + k - i + 1])
  ELSE LET once == IF hi = 0 THEN <<>> ELSE Ends(r, txt, p)
           more == Tup([i \in 1..Len(once) |->
                      IF once[i] = p THEN <<p>>
                      ELSE EndsRep(r, IF lo > 0 THEN lo - 1 ELSE 0,
                                   IF hi = Inf THEN Inf ELSE hi - 1, txt, once[i])])
       IN Merge(more \o (IF lo = 0 THEN << <<p>> >> ELSE <<>>))

RECURSIVE Scan(_, _, _)
\* the matches that start at offset s or later
Scan(r, txt, s) ==
  LET found == {q \in s..Len(txt) : Len(Ends(r, txt, q)) > 0}
  IN IF found = {} THEN <<>>
     ELSE LET q == CHOOSE x \in found : \A y \in found : x <= y
              e == Ends(r, txt, q)[1]
          IN <<[start |-> q, end |-> e]>>
             \o Scan(r, txt, IF e > q THEN e ELSE q + 1)

\* re.finditer(pattern, text, re.IGNORECASE): the non-overlapping matches,
\* leftmost first
finditer(r, txt) == Scan(r, txt, 0)

(***************************************************************************)
(* The pattern catalog of DLPDetector._init_patterns                       *)
(***************************************************************************)
CRITICAL == "critical"
HIGH     == "high"
MEDIUM   == "medium"
LOW      == "low"
NONE     == "none"
SensitivityLevel == {CRITICAL, HIGH, MEDIUM, LOW, NONE}

D      == Ch(Digit)                       \* [0-9]
AZ     == Ch(Upper)                       \* [A-Z]
AZ09   == Ch(Upper \cup Digit)            \* [A-Z0-9]
Sep    == Ch({"-"} \cup Space)            \* [-\s]
S      == Ch(Space)                       \* \s
NonS   == NotCh(Space)                    \* \S
KeyCh  == Ch(Upper \cup Lower \cup Digit \cup {"_", "-"})   \* [A-Za-z0-9_\-]
Ctx    == Star(Ch(Space \cup {":", "#"})) \* [\s:#]*
Assign == Plus(Ch(Space \cup {":", "="})) \* [\s:=]+
\* (regex, description, sensitivity, confidence)
P(re, desc, sens, conf) ==
  [pattern |-> re, description |-> desc, sensitivity |-> sens, confidence |-> conf]

credit_card ==
  << P(Cat(<<WB, Lit(<<"4">>), N(D, 3), Opt(Sep), N(D, 4), Opt(Sep), N(D, 4),
             Opt(Sep), N(D, 4), WB>>),
       "Visa card", CRITICAL, 95),
     P(Cat(<<WB, Lit(<<"5">>), Ch({"1","2","3","4","5"}), N(D, 2), Opt(Sep),
             N(D, 4), Opt(Sep), N(D, 4), Opt(Sep), N(D, 4), WB>>),
       "MasterCard", CRITICAL, 95),
     P(Cat(<<WB, Lit(<<"3">>), Ch({"4","7"}), N(D, 2), Opt(Sep), N(D, 6),
             Opt(Sep), N(D, 5), WB>>),
       "American Express", CRITICAL, 95),
     P(Cat(<<WB, Lit(<<"6">>),
             Alt(<<Lit(<<"0","1","1">>), Cat(<<Lit(<<"5">>), N(D, 2)>>)>>),
             Opt(Sep), N(D, 4), Opt(Sep), N(D, 4), Opt(Sep), N(D, 4), WB>>),
       "Discover card", CRITICAL, 95),
     P(Cat(<<WB, N(D, 4), Opt(Sep), N(D, 4), Opt(Sep), N(D, 4), Opt(Sep),
             N(D, 4), WB>>),
       "Credit card number", CRITICAL, 70) >>

bank_account ==
  << P(Cat(<<WB, N(AZ, 2), N(D, 2), N(AZ09, 4), N(D, 7),
             Rep(Opt(AZ09), 0, 16), WB>>),
       "IBAN", HIGH, 95),
     P(Cat(<<Alt(<<Lit(<<"a","c","c","o","u","n","t">>), Lit(<<"a","c","c","t">>),
                   Lit(<<"a","/","c">>)>>),
             Ctx, Rep(D, 8, 17)>>),
       "Bank account number", HIGH, 85),
     P(Cat(<<Alt(<<Lit(<<"r","o","u","t","i","n","g">>), Lit(<<"r","t","g">>),
                   Lit(<<"a","b","a">>)>>),
             Ctx, N(D, 9)>>),
       "Bank routing number", HIGH, 90),
     P(Cat(<<WB, N(AZ, 4), N(AZ, 2), N(AZ09, 2), Opt(N(AZ09, 3)), WB>>),
       "SWIFT/BIC code", HIGH, 80) >>

cvv ==
  << P(Cat(<<Alt(<<Lit(<<"c","v","v">>), Lit(<<"c","v","c">>),
                   Lit(<<"c","v","v","2">>), Lit(<<"c","v","c","2">>),
                   Cat(<<Lit(<<"s","e","c","u","r","i","t","y">>), Star(S),
                         Lit(<<"c","o","d","e">>)>>)>>),
             Star(Ch(Space \cup {":"})), Rep(D, 3, 4)>>),
       "Card security code (CVV)", CRITICAL, 95) >>

ssn ==
  << P(Cat(<<WB, N(D, 3), Sep, N(D, 2), Sep, N(D, 4), WB>>),
       "Social Security Number", CRITICAL, 95),
     P(Cat(<<Alt(<<Lit(<<"s","s","n">>),
                   Cat(<<Lit(<<"s","o","c","i","a","l">>), Star(S),
                         Lit(<<"s","e","c","u","r","i","t","y">>)>>)>>),
             Ctx, N(D, 3), Opt(Sep), N(D, 2), Opt(Sep), N(D, 4)>>),
       "SSN", CRITICAL, 98) >>

nric ==
  << P(Cat(<<WB, Ch({"S","T","F","G","M"}), N(D, 7), AZ, WB>>),
       "Singapore NRIC/FIN", CRITICAL, 95),
     P(Cat(<<WB, N(D, 6), Opt(Sep), N(D, 2), Opt(Sep), N(D, 4), WB>>),
       "Malaysia IC", CRITICAL, 80) >>

passport ==
  << P(Cat(<<Lit(<<"p","a","s","s","p","o","r","t">>), Ctx, Rep(AZ, 1, 2),
             Rep(D, 6, 9)>>),
       "Passport number", HIGH, 85) >>

drivers_license ==
  << P(Cat(<<Alt(<<Cat(<<Lit(<<"d","r","i","v","e","r">>), Opt(Lit(<<"'">>)),
                         Opt(Lit(<<"s">>)), Star(S),
                         Lit(<<"l","i","c","e","n","s","e">>)>>),
                   Lit(<<"d","l">>),
                   Cat(<<Lit(<<"l","i","c","e","n","s","e">>), Star(S),
                         Opt(Lit(<<"#">>))>>)>>),
             Ctx, Rep(AZ09, 5, 15)>>),
       "Driver's license", HIGH, 80) >>

password ==
  << P(Cat(<<Lit(<<"p","a","s","s","w","o","r","d">>), Assign, Plus(NonS)>>),
       "Password", CRITICAL, 95),
     P(Cat(<<Alt(<<Lit(<<"p","w","d">>), Lit(<<"p","a","s","s","w","d">>)>>),
             Assign, Plus(NonS)>>),
       "Password", CRITICAL, 90),
     P(Cat(<<Lit(<<"p","a","s","s">>), Assign, Rep(NonS, 6, Inf)>>),
       "Password", CRITICAL, 80) >>

pin ==
  << P(Cat(<<Alt(<<Lit(<<"p","i","n">>),
                   Cat(<<Lit(<<"p","i","n">>), Star(S), Lit(<<"c","o","d","e">>)>>),
                   Cat(<<Lit(<<"p","i","n">>), Star(S),
                         Lit(<<"n","u","m","b","e","r">>)>>)>>),
             Assign, Rep(D, 4, 6)>>),
       "PIN code", CRITICAL, 95) >>

api_key ==
  << P(Cat(<<Lit(<<"a","p","i">>), Opt(Ch({"_", "-"})), Lit(<<"k","e","y">>),
             Assign, Rep(KeyCh, 20, Inf)>>),
       "API Key", CRITICAL, 95),
     P(Cat(<<Lit(<<"s","e","c","r","e","t">>), Opt(Ch({"_", "-"})),
             Lit(<<"k","e","y">>), Assign, Rep(KeyCh, 20, Inf)>>),
       "Secret Key", CRITICAL, 95),
     P(Cat(<<Lit(<<"a","c","c","e","s","s">>), Opt(Ch({"_", "-"})),
             Lit(<<"t","o","k","e","n">>), Assign, Rep(KeyCh, 20, Inf)>>),
       "Access Token", CRITICAL, 95),
     P(Cat(<<Lit(<<"b","e","a","r","e","r">>), Plus(S),
             Rep(Ch(Upper \cup Lower \cup Digit \cup {"_", "-", "."}), 20, Inf)>>),
       "Bearer Token", CRITICAL, 90),
     P(Cat(<<Lit(<<"A","K","I","A">>), N(Ch(Digit \cup Upper), 16)>>),
       "AWS Access Key", CRITICAL, 98) >>

phone ==
  << P(Cat(<<Lit(<<"+">>), Ch(Digit \ {"0"}), Rep(D, 0, 2), Opt(Sep),
             Rep(D, 8, 14)>>),
       "Phone number (international)", MEDIUM, 85),
     P(Cat(<<WB, Opt(Lit(<<"(">>)), N(D, 3), Opt(Lit(<<")">>)),
             Opt(Ch({"-", "."} \cup Space)), N(D, 3),
             Opt(Ch({"-", "."} \cup Space)), N(D, 4), WB>>),
       "Phone number (US)", MEDIUM, 80),
     P(Cat(<<Alt(<<Lit(<<"p","h","o","n","e">>), Lit(<<"m","o","b","i","l","e">>),
                   Lit(<<"c","e","l","l">>), Lit(<<"t","e","l">>)>>),
             Ctx, Rep(Ch(Digit \cup {"-"} \cup Space), 10, Inf)>>),
       "Phone number", MEDIUM, 85) >>

email ==
  << P(Cat(<<WB, Plus(Ch(Upper \cup Lower \cup Digit \cup {".", "_", "%", "+", "-"})),
             Lit(<<"@">>), Plus(Ch(Upper \cup Lower \cup Digit \cup {".", "-"})),
             Lit(<<".">>), Rep(Ch(Upper \cup Lower \cup {"|"}), 2, Inf), WB>>),
       "Email address", LOW, 95) >>

address ==
  << P(Cat(<<Alt(<<Lit(<<"a","d","d","r","e","s","s">>), Lit(<<"s","t","r","e","e","t">>),
                   Lit(<<"a","v","e","n","u","e">>), Lit(<<"r","o","a","d">>),
                   Lit(<<"b","l","v","d">>), Lit(<<"l","a","n","e">>)>>),
             Ctx, Plus(D), Plus(S), Plus(Ch(Upper \cup Lower \cup Space))>>),
       "Physical address", MEDIUM, 70) >>

dob ==
  << P(Cat(<<Alt(<<Lit(<<"d","o","b">>),
                   Cat(<<Lit(<<"d","a","t","e">>), Star(S), Lit(<<"o","f">>),
                         Star(S), Lit(<<"b","i","r","t","h">>)>>),
                   Lit(<<"b","o","r","n">>), Lit(<<"b","i","r","t","h","d","a","y">>)>>),
             Plus(Ch(Space \cup {":"})), Rep(D, 1, 2), Ch({"/", "-"}),
             Rep(D, 1, 2), Ch({"/", "-"}), Rep(D, 2, 4)>>),
       "Date of birth", MEDIUM, 90) >>

medical ==
  << P(Cat(<<Alt(<<Lit(<<"m","r","n">>),
                   Cat(<<Lit(<<"m","e","d","i","c","a","l">>), Star(S),
                         Lit(<<"r","e","c","o","r","d">>)>>),
                   Cat(<<Lit(<<"p","a","t","i","e","n","t">>), Star(S),
                         Lit(<<"i","d">>)>>)>>),
             Ctx, Rep(AZ09, 6, Inf)>>),
       "Medical record number", HIGH, 90),
     P(Cat(<<Alt(<<Lit(<<"d","i","a","g","n","o","s","i","s">>),
                   Lit(<<"p","r","e","s","c","r","i","p","t","i","o","n">>),
                   Lit(<<"m","e","d","i","c","a","t","i","o","n">>)>>),
             Plus(Ch(Space \cup {":"})), Plus(Ch(Upper \cup Lower \cup Space))>>),
       "Health information", HIGH, 70) >>

\* (?:25[0-5]|2[0-4][0-9]|[01]?[0-9][0-9]?)
Octet ==
  Alt(<<Cat(<<Lit(<<"2","5">>), Ch({"0","1","2","3","4","5"})>>),
        Cat(<<Lit(<<"2">>), Ch({"0","1","2","3","4"}), D>>),
        Cat(<<Opt(Ch({"0","1"})), D, Opt(D)>>)>>)
Hex == Ch(Digit \cup {"a","b","c","d","e","f","A","B","C","D","E","F"})
ip_address ==
  << P(Cat(<<WB, N(Cat(<<Octet, Lit(<<".">>)>>), 3), Octet, WB>>),
       "IP Address (IPv4)", MEDIUM, 90),
     P(Cat(<<WB, N(Cat(<<Rep(Hex, 1, 4), Lit(<<":">>)>>), 7), Rep(Hex, 1, 4), WB>>),
       "IP Address (IPv6)", MEDIUM, 90) >>

\* self.patterns, in the insertion order of the dictionary
patterns ==
  << [category |-> "credit_card",     patterns |-> credit_card],
     [category |-> "bank_account",    patterns |-> bank_account],
     [category |-> "cvv",             patterns |-> cvv],
     [category |-> "ssn",             patterns |-> ssn],
     [category |-> "nric",            patterns |-> nric],
     [category |-> "passport",        patterns |-> passport],
     [category |-> "drivers_license", patterns |-> drivers_license],
     [category |-> "password",        patterns |-> password],
     [category |-> "pin",             patterns |-> pin],
     [category |-> "api_key",         patterns |-> api_key],
     [category |-> "phone",           patterns |-> phone],
     [category |-> "email",           patterns |-> email],
     [category |-> "address",         patterns |-> address],
     [category |-> "dob",             patterns |-> dob],
     [category |-> "medical",         patterns |-> medical],
     [category |-> "ip_address",      patterns |-> ip_address] >>

(***************************************************************************)
(* Strings                                                                 *)
(***************************************************************************)
\* Variant of Stars: always 12 of them (C15 depends on it).
Stars_twelve(n) == [i \in 1..12 |-> "*"] \o <<>>
Stars(n)      == [i \in 1..n |-> "*"] \o <<>>
\* Variant of LastN: the slice s[:n] (C14 depends on it).
LastN_first(s, n) == IF Len(s) <= n THEN s ELSE SubSeq(s, 1, n)
\* s[-n:]
LastN(s, n)   == IF Len(s) <= n THEN s ELSE SubSeq(s, Len(s) - n + 1, Len(s))
\* re.sub(r'[-\s]', '', s)
StripSep(s)   == SelectSeq(s, LAMBDA ch : ch \notin ({"-"} \cup Space))
\* text[start:end]
Slice(txt, start, end) == SubSeq(txt, start + 1, end)

(***************************************************************************)
(* DLPDetector._validate_luhn                                              *)
(***************************************************************************)
DigitSeq == <<"0","1","2","3","4","5","6","7","8","9">>
\* int(digit) of a decimal digit
IntOf(ch) == (CHOOSE i \in 1..10 : DigitSeq[i] = ch) - 1
\* str.isdigit()
isdigit(s) == Len(s) > 0 /\ \A i \in 1..Len(s) : s[i] \in Digit \cup OtherDigit

\* the contribution of reverse[i], i counted from 0
LuhnTerm(digits, i) ==
  LET n == IntOf(digits[Len(digits) - i])
  IN IF i % 2 = 1 THEN (IF 2 * n > 9 THEN 2 * n - 9 ELSE 2 * n) ELSE n

RECURSIVE LuhnTotal(_, _)
\* total after the iterations i, i+1, ... of the loop
LuhnTotal(digits, i) ==
  IF i >= Len(digits) THEN 0 ELSE LuhnTerm(digits, i) + LuhnTotal(digits, i + 1)

\* the call raises ValueError: the string passed isdigit() and the length
\* test, and int() meets a digit that is not a decimal digit
LuhnRaises(card_number) ==
  LET digits == StripSep(card_number)
  IN /\ isdigit(digits) /\ Len(digits) >= 13
     /\ \E i \in 1..Len(digits) : digits[i] \notin Digit

\* the value returned when the call does not raise
_validate_luhn(card_number) ==
  LET digits == StripSep(card_number)
  IN IF ~isdigit(digits) \/ Len(digits) < 13 THEN FALSE
     ELSE LuhnTotal(digits, 0) % 10 = 0

(***************************************************************************)
(* DLPDetector._mask_text                                                  *)
(***************************************************************************)
\* text.split('@') has exactly two parts
TwoParts(txt) == Cardinality({i \in 1..Len(txt) : txt[i] = "@"}) = 1
AtSign(txt)   == CHOOSE i \in 1..Len(txt) : txt[i] = "@"

\* Variant of MaskDefault: reveals from 4 characters on (C16 depends on it).
MaskDefault_from4(txt) ==
  IF Len(txt) >= 4
  THEN SubSeq(txt, 1, 2) \o Stars(Len(txt) - 4) \o LastN(txt, 2)
  ELSE Stars(Len(txt))

MaskDefault(txt) ==
  IF Len(txt) > 4
  THEN SubSeq(txt, 1, 2) \o Stars(Len(txt) - 4) \o LastN(txt, 2)
  ELSE Stars(Len(txt))

_mask_text(txt, category) ==
  LET clean == StripSep(txt)
  IN CASE category = "credit_card" ->
            <<"*","*","*","*","-","*","*","*","*","-","*","*","*","*","-">> \o LastN(clean, 4)
       [] category = "phone" ->
            <<"*","*","*","-","*","*","*","-">> \o LastN(clean, 4)
       [] category = "ssn" ->
            <<"*","*","*","-","*","*","-">> \o LastN(clean, 4)
       [] category = "email" /\ TwoParts(txt) ->
            SubSeq(txt, 1, 1) \o <<"*","*","*","@">> \o SubSeq(txt, AtSign(txt) + 1, Len(txt))
       [] category \in {"password", "pin", "api_key", "cvv"} ->
            Stars(IF Len(txt) < 12 THEN Len(txt) ELSE 12)
       [] OTHER -> MaskDefault(txt)

(***************************************************************************)
(* Confidence arithmetic.  A confidence is [n, h], the number              *)
(* n / (100 * 2^h); the catalog gives n and every penalty adds one to h.   *)
(***************************************************************************)
Conf(n)        == [n |-> n, h |-> 0]
\* Variant of Penalize: the confidence is divided by 0.5 (C10 depends on it).
Penalize_divided(conf) == [n |-> conf.n * 2, h |-> conf.h]
\* confidence *= 0.5
Penalize(conf) == [n |-> conf.n, h |-> conf.h + 1]
\* Variant of BelowFloor: the floor is 0.4 (C26 depends on it).
BelowFloor_low(conf) == conf.n < 40 * 2^(conf.h)
\* confidence < 0.5
BelowFloor(conf) == conf.n < 50 * 2^(conf.h)
\* round(confidence, 2), in hundredths.  The floats 0.95 and 0.70 lie just
\* below the decimals and halving is exact, so a value that is half-way
\* between two hundredths in decimal lies below the half and rounds down.
Round2(conf) ==
  LET q == conf.n \div 2^(conf.h)
      r == conf.n % 2^(conf.h)
  IN IF 2 * r > 2^(conf.h) THEN q + 1 ELSE q

(***************************************************************************)
(* DLPDetector._sensitivity_rank, _deduplicate_matches,                    *)
(* _generate_recommendation                                                *)
(***************************************************************************)
\* Variant of _sensitivity_rank: the ranks of HIGH and CRITICAL are exchanged
\* (C2 depends on it).
_sensitivity_rank_swapped(level) ==
  CASE level = NONE     -> 0
    [] level = LOW      -> 1
    [] level = MEDIUM   -> 2
    [] level = HIGH     -> 4
    [] level = CRITICAL -> 3
    [] OTHER            -> 0

_sensitivity_rank(level) ==
  CASE level = NONE     -> 0
    [] level = LOW      -> 1
    [] level = MEDIUM   -> 2
    [] level = HIGH     -> 3
    [] level = CRITICAL -> 4
    [] OTHER            -> 0

\* Variant of SortsBefore: reverse=True is missing (C5 depends on it).
SortsBefore_ascending(ms, i, j) ==
  \/ ms[i].confidence < ms[j].confidence
  \/ ms[i].confidence = ms[j].confidence /\ i < j

\* x sorts before y in matches.sort(key=confidence, reverse=True); the sort
\* is stable, so equal confidences keep their order in the list
SortsBefore(ms, i, j) ==
  \/ ms[i].confidence > ms[j].confidence
  \/ ms[i].confidence = ms[j].confidence /\ i < j

\* Variant of SortByConfidence: the sort is not stable, equal confidences come
\* out in reverse (C6 depends on it).
SortByConfidence_unstable(ms) ==
  Tup([k \in 1..Len(ms) |->
         ms[CHOOSE i \in 1..Len(ms) :
              Cardinality({j \in 1..Len(ms) :
                             \/ ms[j].confidence > ms[i].confidence
                             \/ ms[j].confidence = ms[i].confidence /\ j > i}) = k - 1]])

SortByConfidence(ms) ==
  Tup([k \in 1..Len(ms) |->
         ms[CHOOSE i \in 1..Len(ms) :
              Cardinality({j \in 1..Len(ms) : SortsBefore(ms, j, i)}) = k - 1]])

\* key = (match["position"]["start"], match["position"]["end"])
Key(m) == <<m.position.start, m.position.end>>

\* Variant of Unique: a match is kept when its key was seen (C3 depends on it).
Unique_inverted(sorted) ==
  LET keep == {i \in 1..Len(sorted) :
                 \E j \in 1..(i - 1) : Key(sorted[j]) = Key(sorted[i])}
  IN Tup([k \in 1..Cardinality(keep) |->
            sorted[CHOOSE i \in keep : Cardinality({j \in keep : j < i}) = k - 1]])

\* Variant of Unique: only the key of the previous match is remembered
\* (C4 depends on it).
Unique_adjacent(sorted) ==
  LET keep == {i \in 1..Len(sorted) :
                 i = 1 \/ Key(sorted[i - 1]) # Key(sorted[i])}
  IN Tup([k \in 1..Cardinality(keep) |->
            sorted[CHOOSE i \in keep : Cardinality({j \in keep : j < i}) = k - 1]])

\* the loop over the sorted list: a match is kept when its key was not seen
Unique(sorted) ==
  LET keep == {i \in 1..Len(sorted) :
                 \A j \in 1..(i - 1) : Key(sorted[j]) # Key(sorted[i])}
  IN Tup([k \in 1..Cardinality(keep) |->
            sorted[CHOOSE i \in keep : Cardinality({j \in keep : j < i}) = k - 1]])

_deduplicate_matches(ms) == Unique(SortByConfidence(ms))

\* lines 303-305, over the tiers of the matches in the order of appending
RECURSIVE Highest(_, _)
Highest(levels, highest) ==
  IF levels = <<>> THEN highest
  ELSE Highest(Tail(levels),
               IF _sensitivity_rank(Head(levels)) > _sensitivity_rank(highest)
               THEN Head(levels) ELSE highest)

_generate_recommendation(sensitivity, categories) ==
  CASE sensitivity = NONE ->
         [text |-> "No sensitive data detected. Safe to send.", categories |-> <<>>]
    [] sensitivity = LOW ->
         [text |-> "Low sensitivity data detected. Consider if the recipient needs this information.",
          categories |-> <<>>]
    [] sensitivity = MEDIUM ->
         [text |-> "Medium sensitivity data detected. Verify you trust the recipient before sending.",
          categories |-> <<>>]
    [] sensitivity = HIGH ->
         [text |-> "High sensitivity data detected! Only send if absolutely necessary and to trusted recipients.",
          categories |-> <<>>]
    [] OTHER ->
         [text |-> "CRITICAL: Highly sensitive data detected ({cat_str})! Strongly recommend NOT sending this information via this channel.",
          categories |-> SubSeq(categories, 1, IF Len(categories) < 3 THEN Len(categories) ELSE 3)]

(***************************************************************************)
(* Inputs                                                                  *)
(***************************************************************************)
MaxFrags == 2

\* The fragments of the texts analysed.
\*   1 a Visa number that passes the Luhn check     2 one that fails it
\*   3 an e-mail address      4 a keyword with an SSN (overlapping spans)
\*   5 one span matched for two categories          6 a phone number
\*   7 a word that no pattern matches               8 a word of 8 letters
\*   9 the Visa number of 1 with separators         10 a number of 4 digits
\*   11 a phone keyword followed by one digit and dashes
\*   12 "This is confidential information about our salary structure", the
\*      text of the case "Confidential Content" of test_dlp.py
Fragments ==
  << <<"4","5","3","2","0","1","5","1","1","2","8","3","0","3","6","6">>,
     <<"4","5","3","2","0","1","5","1","1","2","8","3","0","3","6","7">>,
     <<"j","@","x",".","i","o">>,
     <<"S","S","N",":"," ","1","2","3","-","4","5","-","6","7","8","9">>,
     <<"D","L","A","B","C","D","1","2">>,
     <<"+","1","-","5","5","5","-","1","2","3","-","4","5","6","7">>,
     <<"o","k">>,
     <<"t","o","m","o","r","r","o","w">>,
     <<"4","5","3","2","-","0","1","5","1","-","1","2","8","3","-","0","3","6","6">>,
     <<"4","0","0","0">>,
     <<"t","e","l"," ","1","-","-","-","-","-","-","-","-","-">>,
     <<"T","h","i","s"," ","i","s"," ","c","o","n","f","i","d","e","n","t","i","a","l"," ","i","n","f","o","r","m","a","t","i","o","n"," ","a","b","o","u","t"," ","o","u","r"," ","s","a","l","a","r","y"," ","s","t","r","u","c","t","u","r","e">> >>

RECURSIVE Join(_)
Join(ids) ==
  IF Len(ids) = 0 THEN <<>>
  ELSE IF Len(ids) = 1 THEN Fragments[ids[1]]
  ELSE Fragments[ids[1]] \o <<" ">> \o Join(Tail(ids))

\* the fragments that are combined with each other, and the texts that are
\* analysed as they are: "ok", "tomorrow", the card number with separators,
\* alone and after "4000", "tel 1---------", and the sentence of test_dlp.py
Combined == 1..6
Alone    == {<<7>>, <<8>>, <<9>>, <<10, 9>>, <<11>>, <<12>>}
Texts ==
  {Join(ids) : ids \in Alone \cup UNION {[1..n -> Combined] : n \in 0..MaxFrags}}

(***************************************************************************)
(* DLPDetector.analyze, one step per iteration of its loops                *)
(***************************************************************************)
VARIABLES
  pc,                  \* "idle", "for_pattern" (a pattern tuple was just bound),
                       \* "for_match" (the loop body just ran), "done",
                       \* "raised" (the call ended in an exception)
  text,                \* the argument of analyze
  at,                  \* how many pattern tuples the loops have bound so far
  confidence,          \* the loop variable confidence
  occs,                \* what re.finditer has still to yield for this pattern
  match,               \* the loop variable match
  matches, categories_found, highest_sensitivity,
  report,              \* the dictionary returned
  luhn_arg,            \* the argument of the last direct call of _validate_luhn
  luhn_result,         \* its outcome: "True", "False" or the exception raised
  edits,               \* how many edits made luhn_arg from a base string
  mask_arg,            \* the text of the last direct call of _mask_text
  mask_category,       \* its category
  mask_result,         \* its outcome: the string returned, or the exception raised
  self_patterns,       \* the attribute patterns of the detector, flattened
                       \* in the order in which the loops of analyze visit it
  hash_seed,           \* the string-hash seed of the interpreter process
  suspended,           \* the frame of the analyze call of the thread that
                       \* does not hold the interpreter lock
  scan_request,        \* main_dlp: the text of the request to /api/dlp/scan
  detections,          \* the sensitivity tiers of what scan_text detected
  scan_response,       \* the HTTP status answered and the summary fields
  dlp_detector,        \* main: the global dlp_detector, "None" or "DLPDetector"
  firebase_initialized,\* main: the global firebase_initialized
  alerts,              \* main: the rows of the table alerts, row i has id i
  tasks,               \* main: the background tasks added and not yet run
  pushes,              \* what the calls of send_push_notification returned
  user_devices,        \* main: the rows of the table user_devices
  registered,          \* the registrations that register_device has served
  request,             \* main: the last request served
  response             \* main: the answer to it

avars == <<pc, text, at, confidence, occs, match, matches, categories_found,
           highest_sensitivity, report>>
lvars == <<luhn_arg, luhn_result, edits>>
mvars == <<mask_arg, mask_category, mask_result>>
dvars == <<self_patterns, hash_seed>>
scvars == <<scan_request, detections, scan_response>>
svars == <<dlp_detector, firebase_initialized, alerts, tasks, pushes,
           user_devices, registered, request, response>>
apivars == <<scvars, svars>>
vars  == <<avars, lvars, mvars, dvars, suspended, apivars>>

\* the pattern tuples of the dictionary d with their categories, in the
\* order in which the two outer loops visit them
Items(d) ==
  LET all == UNION {{<<c, k>> : k \in 1..Len(d[c].patterns)} : c \in 1..Len(d)}
  IN Tup([i \in 1..Cardinality(all) |->
            LET ck == CHOOSE x \in all : Cardinality({y \in all : Before(y, x)}) = i - 1
            IN [category |-> d[ck[1]].category, tuple |-> d[ck[1]].patterns[ck[2]]]])
Order == Items(patterns)

CategoryAt(i)   == Order[i].category
TupleAt(i)      == Order[i].tuple

\* the argument None: no string, so no sequence of characters
None     == <<"None">>
NoMatch  == [start |-> -1, end |-> -1]
NoReport ==
  [has_sensitive_data |-> FALSE, sensitivity_level |-> NONE, total_matches |-> 0,
   categories |-> <<>>, matches |-> <<>>,
   recommendation |-> [text |-> "", categories |-> <<>>]]

\* list(categories_found): a set of strings is iterated in hash order,
\* which differs from one interpreter run to the next
Lists(set) ==
  {l \in [1..Cardinality(set) -> set] : \A i, j \in 1..Cardinality(set) : l[i] = l[j] => i = j}

\* list(set) at lines 311 and 317: a set of strings is iterated in the order
\* of the hashes of its members, which the seed of the process determines.
\* The hash of a category name is modelled as its rank among the keys of
\* the catalog, multiplied by the seed, modulo a prime above the ranks.
MaxSeeds == 2
CategoryKeys ==
  <<"credit_card", "bank_account", "cvv", "ssn", "nric", "passport",
    "drivers_license", "password", "pin", "api_key", "phone", "email",
    "address", "dob", "medical", "ip_address">>
Hash(seed, c) == ((CHOOSE i \in 1..Len(CategoryKeys) : CategoryKeys[i] = c) * seed) % 17
ListOf(seed, set) ==
  CHOOSE l \in Lists(set) :
    \A i, j \in 1..Len(l) : i < j => Hash(seed, l[i]) < Hash(seed, l[j])

\* the frame of a call of analyze: its locals, its position and its result
Frame ==
  [pc |-> pc, text |-> text, at |-> at, confidence |-> confidence, occs |-> occs,
   match |-> match, matches |-> matches, categories_found |-> categories_found,
   highest_sensitivity |-> highest_sensitivity, report |-> report]
\* the frame of a thread that has not called analyze yet
NoCall ==
  [pc |-> "idle", text |-> <<>>, at |-> 0, confidence |-> Conf(0), occs |-> <<>>,
   match |-> NoMatch, matches |-> <<>>, categories_found |-> {},
   highest_sensitivity |-> NONE, report |-> NoReport]

\* main: no request has been served yet
NoRequest ==
  [endpoint |-> "", user_id |-> "", message |-> <<>>, device_token |-> "",
   platform |-> "", alert_id |-> 0, action |-> ""]
NoAnswer == [status |-> 0, alert_id |-> 0, detail |-> <<>>]

\* no request has been answered yet
NoResponse == [status |-> 0, total_detections |-> 0, risk_score |-> 0, risk_level |-> ""]

Init ==
  /\ pc = "idle"
  /\ text = <<>>
  /\ at = 0
  /\ confidence = Conf(0)
  /\ occs = <<>>
  /\ match = NoMatch
  /\ matches = <<>>
  /\ categories_found = {}
  /\ highest_sensitivity = NONE
  /\ report = NoReport
  /\ luhn_arg = <<>>
  /\ luhn_result = "none"
  /\ edits = 0
  /\ mask_arg = <<>>
  /\ mask_category = "none"
  /\ mask_result = [raised |-> "", returned |-> <<>>]
  /\ self_patterns = Order
  /\ hash_seed \in 1..MaxSeeds
  /\ suspended = NoCall
  /\ scan_request = <<>>
  /\ detections = <<>>
  /\ scan_response = NoResponse
  /\ dlp_detector = "None"
  /\ firebase_initialized = FALSE
  /\ alerts = <<>>
  /\ tasks = <<>>
  /\ pushes = {}
  /\ user_devices = <<>>
  /\ registered = <<>>
  /\ request = NoRequest
  /\ response = NoAnswer

\* analyze(t) is called: lines 270-272
Analyze(t) ==
  /\ pc \in {"idle", "done", "raised"}
  /\ pc' = "for_pattern"
  /\ text' = t
  /\ at' = 0
  /\ confidence' = Conf(0)
  /\ occs' = <<>>
  /\ match' = NoMatch
  /\ matches' = <<>>
  /\ categories_found' = {}
  /\ highest_sensitivity' = NONE
  /\ report' = NoReport
  /\ UNCHANGED <<lvars, mvars, dvars, suspended, apivars>>

\* lines 274-276: the next pattern tuple is bound and finditer is started;
\* re.finditer raises TypeError when its second argument is no string
ForPattern ==
  /\ pc \in {"for_pattern", "for_match"}
  /\ occs = <<>>
  /\ at < Len(self_patterns)
  /\ at' = at + 1
  /\ confidence' = Conf(self_patterns[at + 1].tuple.confidence)
  /\ IF text = None
     THEN occs' = <<>> /\ pc' = "raised"
     ELSE occs' = finditer(self_patterns[at + 1].tuple.pattern, text) /\ pc' = "for_pattern"
  /\ UNCHANGED <<text, match, matches, categories_found, highest_sensitivity, report>>
  /\ UNCHANGED <<lvars, mvars, dvars, suspended, apivars>>

\* lines 277-305: one iteration of the loop over the matches of a pattern
ForMatch ==
  /\ pc \in {"for_pattern", "for_match"}
  /\ occs # <<>>
  /\ LET m            == Head(occs)
         category     == self_patterns[at].category
         sensitivity  == self_patterns[at].tuple.sensitivity
         matched_text == Slice(text, m.start, m.end)
         failed       == category = "credit_card" /\ ~_validate_luhn(matched_text)
         conf         == IF failed THEN Penalize(confidence) ELSE confidence
     IN /\ match' = m
        /\ occs' = Tail(occs)
        /\ confidence' = conf
        /\ pc' = "for_match"
        /\ IF failed /\ BelowFloor(conf)
           THEN UNCHANGED <<matches, categories_found, highest_sensitivity>>
           ELSE /\ matches' = Append(matches,
                     [category     |-> category,
                      description  |-> self_patterns[at].tuple.description,
                      matched_text |-> matched_text,
                      masked_text  |-> _mask_text(matched_text, category),
                      sensitivity  |-> sensitivity,
                      confidence   |-> Round2(conf),
                      position     |-> [start |-> m.start, end |-> m.end]])
                /\ categories_found' = categories_found \cup {category}
                /\ highest_sensitivity' =
                     IF _sensitivity_rank(sensitivity) > _sensitivity_rank(highest_sensitivity)
                     THEN sensitivity ELSE highest_sensitivity
  /\ UNCHANGED <<text, at, report>>
  /\ UNCHANGED <<lvars, mvars, dvars, suspended, apivars>>

\* lines 307-320
Return ==
  /\ pc \in {"for_pattern", "for_match"}
  /\ occs = <<>>
  /\ at = Len(self_patterns)
  /\ LET categories == ListOf(hash_seed, categories_found)
         unique     == _deduplicate_matches(matches)
       IN /\ matches' = unique
          /\ report' =
               [has_sensitive_data |-> Len(unique) > 0,
                sensitivity_level  |-> highest_sensitivity,
                total_matches      |-> Len(unique),
                categories         |-> categories,
                matches            |-> unique,
                recommendation     |-> _generate_recommendation(highest_sensitivity, categories)]
  /\ pc' = "done"
  /\ UNCHANGED <<text, at, confidence, occs, match, categories_found, highest_sensitivity>>
  /\ UNCHANGED <<lvars, mvars, dvars, suspended, apivars>>

\* Variant of Resume: the list matches is shared by the calls, as an
\* attribute of the detector would be (C20 depends on it).
Resume_shared(mine, other) == [mine EXCEPT !.matches = other.matches]
\* What a thread finds when it gets the interpreter lock back: matches,
\* categories_found, highest_sensitivity (lines 270-272) and the loop
\* variables are locals of its own call, so it finds its own frame, whatever
\* the other thread did to its frame meanwhile.
Resume(mine, other) == mine

\* The interpreter switches threads between two steps of analyze: the running
\* call is suspended and the suspended one runs on.
Switch ==
  /\ LET f == Resume(suspended, Frame)
     IN /\ pc' = f.pc
        /\ text' = f.text
        /\ at' = f.at
        /\ confidence' = f.confidence
        /\ occs' = f.occs
        /\ match' = f.match
        /\ matches' = f.matches
        /\ categories_found' = f.categories_found
        /\ highest_sensitivity' = f.highest_sensitivity
        /\ report' = f.report
  /\ suspended' = Frame
  /\ UNCHANGED <<lvars, mvars, dvars, apivars>>

Next ==
  \/ \E t \in Texts \cup {None} : Analyze(t)
  \/ ForPattern
  \/ ForMatch
  \/ Return

Spec == Init /\ [][Next]_vars

(***************************************************************************)
(* Two threads call analyze on one detector.  The texts: a card number     *)
(* that fails the Luhn check before one that passes it, an e-mail address  *)
(* next to a card number, and a driver's licence number that two patterns  *)
(* match.                                                                  *)
(***************************************************************************)
ThreadTexts == {Join(<<2, 1>>), Join(<<3, 1>>), Join(<<5>>)}

NextThreads ==
  \/ \E t \in ThreadTexts : Analyze(t)
  \/ ForPattern
  \/ ForMatch
  \/ Return
  \/ Switch

SpecThreads == Init /\ [][NextThreads]_vars

(***************************************************************************)
(* analyze as a function: what a detector straight out of the constructor  *)
(* returns for the text t in a process with the given hash seed.           *)
(***************************************************************************)
\* lines 276-299: the records appended while pattern tuple i is scanned; the
\* confidence of an occurrence is the base confidence halved once per
\* occurrence of this pattern, up to and including it, that failed the check
AppendedAt(i, t) ==
  LET Kept(entry, os, txt, conf, keep) ==
        LET nth(n) == CHOOSE k \in keep : Cardinality({j \in keep : j < k}) = n - 1
        IN Tup([n \in 1..Cardinality(keep) |->
                  [category     |-> entry.category,
                   description  |-> entry.tuple.description,
                   matched_text |-> txt[nth(n)],
                   masked_text  |-> _mask_text(txt[nth(n)], entry.category),
                   sensitivity  |-> entry.tuple.sensitivity,
                   confidence   |-> Round2(conf[nth(n)]),
                   position     |-> os[nth(n)]]])
      Judged(entry, os, txt, failed, conf) ==
        Kept(entry, os, txt, conf,
             {k \in 1..Len(os) : ~(failed[k] /\ BelowFloor(conf[k]))})
      Validated(entry, os, txt, failed) ==
        Judged(entry, os, txt, failed,
               Tup([k \in 1..Len(os) |->
                      [n |-> entry.tuple.confidence,
                       h |-> Cardinality({j \in 1..k : failed[j]})]]))
      Matched(entry, os, txt) ==
        Validated(entry, os, txt,
                  Tup([k \in 1..Len(os) |->
                         entry.category = "credit_card" /\ ~_validate_luhn(txt[k])]))
      Found(entry, os) ==
        Matched(entry, os, Tup([k \in 1..Len(os) |-> Slice(t, os[k].start, os[k].end)]))
      Searched(entry) == Found(entry, finditer(entry.tuple.pattern, t))
  IN Searched(Order[i])

\* lines 274-299: the list matches when the loops are through
AllAppended(t) ==
  LET Flat(per, all) ==
        Tup([n \in 1..Cardinality(all) |->
               LET ik == CHOOSE x \in all : Cardinality({y \in all : Before(y, x)}) = n - 1
               IN per[ik[1]][ik[2]]])
      Numbered(per) ==
        Flat(per, UNION {{<<i, k>> : k \in 1..Len(per[i])} : i \in 1..Len(per)})
  IN Numbered(Tup([i \in 1..Len(Order) |-> AppendedAt(i, t)]))

\* lines 301-320
FreshReport(t, seed) ==
  LET Returned(highest, unique, categories) ==
        [has_sensitive_data |-> Len(unique) > 0,
         sensitivity_level  |-> highest,
         total_matches      |-> Len(unique),
         categories         |-> categories,
         matches            |-> unique,
         recommendation     |-> _generate_recommendation(highest, categories)]
      Summed(ms, levels) ==
        Returned(CHOOSE l \in levels :
                   \A x \in levels : _sensitivity_rank(x) <= _sensitivity_rank(l),
                 _deduplicate_matches(ms),
                 ListOf(seed, {ms[i].category : i \in 1..Len(ms)}))
      Looped(ms) ==
        Summed(ms, {NONE} \cup {ms[i].sensitivity : i \in 1..Len(ms)})
  IN Looped(AllAppended(t))

(***************************************************************************)
(* Direct calls of _validate_luhn.  The strings are the base strings and   *)
(* what up to MaxEdits edits make of them: a character replaced, a         *)
(* separator inserted, the last character dropped.                         *)
(***************************************************************************)
MaxEdits == 1

\*   a 16-digit number that passes the check, bare and with separators;
\*   a 13-digit number that passes it; the empty string
LuhnBases ==
  { <<"4","5","3","2","0","1","5","1","1","2","8","3","0","3","6","6">>,
    <<"4","5","3","2","-","0","1","5","1"," ","1","2","8","3","-","0","3","6","6">>,
    <<"4","2","2","2","2","2","2","2","2","2","2","2","2">>,
    <<>> }
ReplaceChars == {"0", "5", "9", "a", "U+00B2"}
InsertChars  == {"-", " "}

Edits(s) ==
  {[s EXCEPT ![i] = ch] : i \in 1..Len(s), ch \in ReplaceChars}
  \cup {SubSeq(s, 1, i) \o <<ch>> \o SubSeq(s, i + 1, Len(s)) : i \in 0..Len(s), ch \in InsertChars}
  \cup {SubSeq(s, 1, Len(s) - 1)}

LuhnOutcome(s) ==
  IF LuhnRaises(s) THEN "ValueError"
  ELSE IF _validate_luhn(s) THEN "True" ELSE "False"

\* self._validate_luhn(s)
ValidateLuhn(s) ==
  /\ luhn_arg' = s
  /\ luhn_result' = LuhnOutcome(s)
  /\ UNCHANGED <<avars, mvars, dvars, suspended, apivars>>

NextLuhn ==
  \/ \E s \in LuhnBases : edits' = 0 /\ ValidateLuhn(s)
  \/ edits < MaxEdits /\ \E s \in Edits(luhn_arg) : edits' = edits + 1 /\ ValidateLuhn(s)

SpecLuhn == Init /\ [][NextLuhn]_vars

(***************************************************************************)
(* Direct calls of _mask_text.  The texts are the prefixes and suffixes,   *)
(* of up to MaxMaskLen characters, of the base strings; the categories are *)
(* those of the catalog and one it does not have.                          *)
(***************************************************************************)
MaxMaskLen == 14

\*   a card number with both kinds of separator: "4532-0151 1283-0366";
\*   a string with the mask character and an at sign: "s3cr*t@x.io"
\* a base string, cut or repeated to at least MaxMaskLen characters
Pad(b) == IF Len(b) >= MaxMaskLen THEN b ELSE b \o b
MaskBases ==
  { <<"4","5","3","2","-","0","1","5","1"," ","1","2","8","3","-","0","3","6","6">>,
    <<"s","3","c","r","*","t","@","x",".","i","o">> }
MaskTexts ==
  UNION {{SubSeq(b, 1, n) : n \in 0..MaxMaskLen} \cup
         {SubSeq(b, Len(b) - n + 1, Len(b)) : n \in 0..MaxMaskLen} :
         b \in {Pad(x) : x \in MaskBases}}
MaskCategories ==
  {"credit_card", "bank_account", "cvv", "ssn", "nric", "passport",
   "drivers_license", "password", "pin", "api_key", "phone", "email",
   "address", "dob", "medical", "ip_address", "other"}

\* parts[0][0] at line 363 raises when the text starts with its only at sign
MaskRaises(txt, category) ==
  category = "email" /\ TwoParts(txt) /\ txt[1] = "@"

MaskOutcome(txt, category) ==
  IF MaskRaises(txt, category)
  THEN [raised |-> "IndexError", returned |-> <<>>]
  ELSE [raised |-> "", returned |-> _mask_text(txt, category)]

\* self._mask_text(txt, category): it reads its two arguments only, so a
\* behaviour holds one call
MaskText(txt, category) ==
  /\ mask_category = "none"
  /\ mask_arg' = txt
  /\ mask_category' = category
  /\ mask_result' = MaskOutcome(txt, category)
  /\ UNCHANGED <<avars, lvars, dvars, suspended, apivars>>

NextMask == \E txt \in MaskTexts, category \in MaskCategories : MaskText(txt, category)

SpecMask == Init /\ [][NextMask]_vars

(***************************************************************************)
(* The score view: DLPDetector.scan_text and generate_summary, which       *)
(* main_dlp.py and test_dlp.py call.  scan_text returns the detections of  *)
(* a text; of a detection only the sensitivity tier enters the summary.    *)
(***************************************************************************)
MaxDetections == 4

SAFE == "SAFE"
TierScore(level) ==
  CASE level = LOW      -> 10
    [] level = MEDIUM   -> 25
    [] level = HIGH     -> 50
    [] level = CRITICAL -> 100

\* the score of the highest tier among the detections
PeakScore(dets) ==
  CHOOSE p \in {TierScore(dets[i]) : i \in 1..Len(dets)} :
    \A i \in 1..Len(dets) : TierScore(dets[i]) <= p

AtMost(a, b) == IF a < b THEN a ELSE b

\* Variant of RiskScore: the sum is not capped at 100 (C23 depends on it).
RiskScore_uncapped(dets) ==
  IF dets = <<>> THEN 0 ELSE PeakScore(dets) + AtMost(5 * Len(dets), 20)
\* min(100, peak_category_score + min(5 x match_count, 20)); 0 without matches
RiskScore(dets) ==
  IF dets = <<>> THEN 0
  ELSE AtMost(100, PeakScore(dets) + AtMost(5 * Len(dets), 20))

\* SAFE(0), LOW(<25), MEDIUM(<50), HIGH(<75), CRITICAL(>=75)
RiskLevel(score) ==
  IF score = 0 THEN SAFE
  ELSE IF score < 25 THEN "LOW"
  ELSE IF score < 50 THEN "MEDIUM"
  ELSE IF score < 75 THEN "HIGH"
  ELSE "CRITICAL"

generate_summary(dets) ==
  [total_detections |-> Len(dets),
   risk_score       |-> RiskScore(dets),
   risk_level       |-> RiskLevel(RiskScore(dets))]

(***************************************************************************)
(* main_dlp.py: the endpoint POST /api/dlp/scan                            *)
(***************************************************************************)
\* the request texts: "", " ", "  ok", "ok"
ScanTexts == {<<>>, <<" ">>, <<" ", " ", "o", "k">>, <<"o", "k">>}
Tiers     == {LOW, MEDIUM, HIGH, CRITICAL}
DetectionLists == UNION {[1..n -> Tiers] : n \in 0..MaxDetections}

\* line 81: not request.text or len(request.text.strip()) == 0
Blank(txt) == \A i \in 1..Len(txt) : txt[i] \in Space

\* lines 108-109: the except clause catches every Exception raised in the try
\* block, the HTTPException of line 82 included, and raises HTTPException
\* with status 500
Caught(status) == 500

\* scan_text(request), lines 79-109; dets is what the detector returns for
\* the text.  The endpoint keeps nothing between requests, so a behaviour
\* holds one request.
ScanText(txt, dets) ==
  /\ scan_response = NoResponse
  /\ scan_request' = txt
  /\ IF Blank(txt)
     THEN /\ detections' = <<>>
          /\ scan_response' = [NoResponse EXCEPT !.status = Caught(400)]
     ELSE /\ detections' = dets
          /\ scan_response' =
               [status           |-> 200,
                total_detections |-> generate_summary(dets).total_detections,
                risk_score       |-> generate_summary(dets).risk_score,
                risk_level       |-> generate_summary(dets).risk_level]
  /\ UNCHANGED <<avars, lvars, mvars, dvars, suspended, svars>>

NextScan == \E txt \in ScanTexts, dets \in DetectionLists : ScanText(txt, dets)

SpecScan == Init /\ [][NextScan]_vars

(***************************************************************************)
(* main.py: startup, /api/v1/dlp/check and the push notification task      *)
(***************************************************************************)
MaxAlerts == 2

\* Optional[str] = None, and the tokens and users of the requests
NoToken      == "None"
DeviceTokens == {NoToken, "tok1"}
Users        == {"u1", "u2"}

\* the messages checked: the Visa number, "ok" and the e-mail address
ServerTexts == {Join(<<1>>), Join(<<7>>), Join(<<3>>)}

\* lifespan: load_ml_models() then initialize_firebase(); credentials says
\* whether the credentials file exists and initialize_app accepted it
Startup(credentials) ==
  /\ dlp_detector = "None"
  /\ dlp_detector' = "DLPDetector"
  /\ firebase_initialized' = credentials
  /\ UNCHANGED <<avars, lvars, mvars, dvars, suspended, scvars>>
  /\ UNCHANGED <<alerts, tasks, pushes, user_devices, registered, request, response>>

\* line 398: not dlp_detector
Unavailable_never(detector) == FALSE
Unavailable(detector) == detector = "None"

\* line 424: the truth value of request.device_token
Supplied(device_token) == device_token \notin {NoToken, ""}

\* line 411
PreviewLen == 100
Preview(message) ==
  IF Len(message) > PreviewLen
  THEN SubSeq(message, 1, PreviewLen) \o <<".", ".", ".">>
  ELSE message

\* lines 405-418, with the columns' defaults of lines 82-83
NewAlert(user_id, message, device_token, result) ==
  [user_id               |-> user_id,
   device_token          |-> device_token,
   message_preview       |-> Preview(message),
   full_message          |-> message,
   has_sensitive_data    |-> result.has_sensitive_data,
   dlp_sensitivity_level |-> result.sensitivity_level,
   dlp_categories        |-> result.categories,
   dlp_matches           |-> result.matches,
   notification_sent     |-> FALSE,
   user_action           |-> "None"]

\* check_dlp, lines 386-448
CheckDlp(user_id, message, device_token) ==
  /\ request' = [NoRequest EXCEPT !.endpoint = "check_dlp", !.user_id = user_id,
                                  !.message = message, !.device_token = device_token]
  /\ IF Unavailable(dlp_detector)
     THEN /\ response' = [NoAnswer EXCEPT !.status = 503]
          /\ UNCHANGED <<alerts, tasks>>
     ELSE LET id == Len(alerts) + 1
              Store(result, push) ==
                /\ alerts' = Append(alerts,
                               [NewAlert(user_id, message, device_token, result)
                                  EXCEPT !.notification_sent = push])
                /\ tasks' = IF push
                            THEN Append(tasks, [device_token |-> device_token,
                                                alert_id |-> id])
                            ELSE tasks
              Analyzed(result) ==
                Store(result, result.has_sensitive_data /\ Supplied(device_token))
          IN /\ Len(alerts) < MaxAlerts
             /\ Analyzed(FreshReport(message, hash_seed))
             /\ response' = [NoAnswer EXCEPT !.status = 200, !.alert_id = id]
  /\ UNCHANGED <<avars, lvars, mvars, dvars, suspended, scvars>>
  /\ UNCHANGED <<dlp_detector, firebase_initialized, pushes, user_devices, registered>>

\* the background task send_push_notification runs, lines 261-303; sent says
\* whether messaging.send returned instead of raising
SendPushNotification(sent) ==
  /\ tasks # <<>>
  /\ sent => firebase_initialized
  /\ pushes' = pushes \cup {[alert_id |-> Head(tasks).alert_id, returned |-> sent]}
  /\ tasks' = Tail(tasks)
  /\ UNCHANGED <<avars, lvars, mvars, dvars, suspended, scvars>>
  /\ UNCHANGED <<dlp_detector, firebase_initialized, alerts, user_devices,
                 registered, request, response>>

NextDlp ==
  \/ \E credentials \in BOOLEAN : Startup(credentials)
  \/ \E message \in ServerTexts, device_token \in DeviceTokens :
       CheckDlp("u1", message, device_token)
  \/ \E sent \in BOOLEAN : SendPushNotification(sent)

SpecDlp == Init /\ [][NextDlp]_vars

(***************************************************************************)
(* main.py: /api/v1/alerts/{alert_id}, GET and PUT                         *)
(***************************************************************************)
\* lines 524-527 and 562-565: the id of the first row with this id and this
\* user_id, 0 when the query finds none
FindAlert_by_id(rows, alert_id, user_id) ==
  IF alert_id \in 1..Len(rows) THEN alert_id ELSE 0
FindAlert(rows, alert_id, user_id) ==
  IF alert_id \in 1..Len(rows) /\ rows[alert_id].user_id = user_id
  THEN alert_id ELSE 0

\* line 570, and the actions that the requests carry
AllowedActions == {"allowed", "blocked", "reported"}
Actions        == AllowedActions \cup {"deleted"}

\* get_alert_detail, lines 516-550
GetAlertDetail(alert_id, user_id) ==
  LET found == FindAlert(alerts, alert_id, user_id)
  IN /\ request' = [NoRequest EXCEPT !.endpoint = "get_alert_detail",
                                     !.alert_id = alert_id, !.user_id = user_id]
     /\ response' = IF found = 0
                    THEN [NoAnswer EXCEPT !.status = 404]
                    ELSE [status |-> 200, alert_id |-> found,
                          detail |-> <<[full_message |-> alerts[found].full_message,
                                        dlp_matches  |-> alerts[found].dlp_matches,
                                        user_action  |-> alerts[found].user_action]>>]
     /\ UNCHANGED <<avars, lvars, mvars, dvars, suspended, scvars>>
     /\ UNCHANGED <<dlp_detector, firebase_initialized, alerts, tasks, pushes,
                    user_devices, registered>>

\* update_alert_action, lines 553-576
UpdateAlertAction(alert_id, user_id, action) ==
  LET found == FindAlert(alerts, alert_id, user_id)
  IN /\ request' = [NoRequest EXCEPT !.endpoint = "update_alert_action",
                                     !.alert_id = alert_id, !.user_id = user_id,
                                     !.action = action]
     /\ IF found = 0
        THEN response' = [NoAnswer EXCEPT !.status = 404] /\ UNCHANGED alerts
        ELSE IF action \notin AllowedActions
        THEN response' = [NoAnswer EXCEPT !.status = 400] /\ UNCHANGED alerts
        ELSE /\ alerts' = [alerts EXCEPT ![found].user_action = action]
             /\ response' = [NoAnswer EXCEPT !.status = 200, !.alert_id = found]
     /\ UNCHANGED <<avars, lvars, mvars, dvars, suspended, scvars>>
     /\ UNCHANGED <<dlp_detector, firebase_initialized, tasks, pushes,
                    user_devices, registered>>

\* the alerts are those of check_dlp calls of both users with the message "ok"
NextAlerts ==
  \/ Startup(FALSE)
  \/ \E user_id \in Users : CheckDlp(user_id, Join(<<7>>), NoToken)
  \/ \E alert_id \in 1..MaxAlerts, user_id \in Users : GetAlertDetail(alert_id, user_id)
  \/ \E alert_id \in 1..MaxAlerts, user_id \in Users, action \in Actions :
       UpdateAlertAction(alert_id, user_id, action)

\* one server process: its hash seed does not matter to these endpoints
InitServer == Init /\ hash_seed = 1

SpecAlerts == InitServer /\ [][NextAlerts]_vars

(***************************************************************************)
(* main.py: /api/v1/device/register                                        *)
(***************************************************************************)
MaxRegistrations == 3

\* lines 459-472: the table after the registration; the first row with the
\* device_token gets the user_id, and a new row is added when there is none
\* (the time stamps created_at and last_active are left out)
Register_insert(rows, registration) == Append(rows, registration)
Register(rows, registration) ==
  LET same == {i \in 1..Len(rows) : rows[i].device_token = registration.device_token}
  IN IF same # {}
     THEN [rows EXCEPT ![CHOOSE i \in same : \A j \in same : i <= j].user_id =
                         registration.user_id]
     ELSE Append(rows, registration)

\* register_device, lines 451-476; the handler has no await and runs as a
\* whole in the event loop of the server
RegisterDevice(user_id, device_token, platform) ==
  LET registration ==
        [user_id |-> user_id, device_token |-> device_token, platform |-> platform]
  IN /\ Len(registered) < MaxRegistrations
     /\ user_devices' = Register(user_devices, registration)
     /\ registered' = Append(registered, registration)
     /\ request' = [NoRequest EXCEPT !.endpoint = "register_device",
                                     !.user_id = user_id,
                                     !.device_token = device_token,
                                     !.platform = platform]
     /\ response' = [NoAnswer EXCEPT !.status = 200]
     /\ UNCHANGED <<avars, lvars, mvars, dvars, suspended, scvars>>
     /\ UNCHANGED <<dlp_detector, firebase_initialized, alerts, tasks, pushes>>

NextDevices ==
  \E user_id \in Users, device_token \in {"tok1", "tok2"}, platform \in {"android", "ios"} :
    RegisterDevice(user_id, device_token, platform)

SpecDevices == InitServer /\ [][NextDevices]_vars

(***************************************************************************)
(* Properties                                                              *)
(***************************************************************************)
Done        == pc = "done"
\* the scan is over and the candidate list is about to be deduplicated
Scanned     == pc \in {"for_pattern", "for_match"} /\ at = Len(Order) /\ occs = <<>>
Reported    == {report.matches[i] : i \in 1..Len(report.matches)}
Candidates  == {matches[i] : i \in 1..Len(matches)}
\* the substring of the text that a match record is about
Raw(m)      == Slice(text, m.position.start, m.position.end)
\* the fields of a match record that hold text of the message
TextFields  == {"matched_text", "masked_text"}

\* the total order NONE < LOW < MEDIUM < HIGH < CRITICAL
TierOrder   == <<NONE, LOW, MEDIUM, HIGH, CRITICAL>>
Tier(level) == CHOOSE i \in 1..5 : TierOrder[i] = level
MaxTier(ms) == CHOOSE i \in 1..5 :
                 /\ i = 1 \/ \E m \in ms : Tier(m.sensitivity) = i
                 /\ \A m \in ms : Tier(m.sensitivity) <= i

\* the pattern tuples that yield the match m on the text
Producers(m) ==
  {i \in 1..Len(Order) :
     /\ CategoryAt(i) = m.category
     /\ TupleAt(i).description = m.description
     /\ \E o \in {finditer(TupleAt(i).pattern, text)[j] :
                    j \in 1..Len(finditer(TupleAt(i).pattern, text))} : o = m.position}
PatternOf(m) == CHOOSE i \in Producers(m) : TRUE
Base(m)      == TupleAt(PatternOf(m)).confidence

NoPatternMatches(txt) ==
  \A i \in 1..Len(Order) : finditer(TupleAt(i).pattern, txt) = <<>>

\* C1 (as claimed): no match record of a report carries the raw substring
\* that the pattern matched; a record exposes the masked text only.
C1_NoRawText ==
  Done => \A m \in Reported : \A f \in TextFields : m[f] # Raw(m)

\* C2: the sensitivity_level of a report is the maximum tier, under
\* NONE < LOW < MEDIUM < HIGH < CRITICAL, of the matches listed in the report.
C2_LevelIsMaxOfReported ==
  Done => Tier(report.sensitivity_level) = MaxTier(Reported)

\* C2 witness: a report whose matches have different tiers and from which
\* deduplication removed a candidate (its category was found, not listed).
C2_Witness ==
  /\ Done
  /\ \E m, n \in Reported : Tier(m.sensitivity) < Tier(n.sensitivity)
  /\ \E c \in categories_found : \A m \in Reported : m.category # c

\* C3: in a report, has_sensitive_data is false iff matches is empty iff the
\* level is NONE; total_matches is the length of matches; a text that no
\* catalog pattern matches gives the empty report.
C3_EmptyIffNone ==
  Done =>
    /\ (report.has_sensitive_data = FALSE) <=> (report.matches = <<>>)
    /\ (report.matches = <<>>) <=> (report.sensitivity_level = NONE)
    /\ report.total_matches = Len(report.matches)
    /\ NoPatternMatches(text) =>
         /\ report.has_sensitive_data = FALSE
         /\ report.sensitivity_level = NONE
         /\ report.matches = <<>>

\* C3 witness: the report of a non-empty text that no pattern matches.
C3_Witness ==
  Done /\ text # <<>> /\ NoPatternMatches(text) /\ ~report.has_sensitive_data

NoSharedSpan(ms) ==
  \A i, j \in 1..Len(ms) : Key(ms[i]) = Key(ms[j]) => i = j

\* C4: no two matches of a report have the same (start, end) span, and
\* _deduplicate_matches applied to its own output returns that output.
C4_DedupIdempotent ==
  /\ Done => NoSharedSpan(report.matches)
  /\ LET unique == _deduplicate_matches(matches)
     IN NoSharedSpan(unique) /\ _deduplicate_matches(unique) = unique

\* C4 witness: a scanned candidate list in which two candidates share a span.
C4_Witness ==
  Scanned /\ ~NoSharedSpan(matches)

Overlap(m, n) ==
  /\ Key(m) # Key(n)
  /\ m.position.start < n.position.end
  /\ n.position.start < m.position.end

\* C5: of every candidate list _deduplicate_matches keeps, for each span,
\* exactly one candidate, one of the highest confidence among the
\* candidates of that span; candidates whose spans overlap without being
\* identical are both kept.
C5_KeepsBestPerSpan ==
  LET unique == _deduplicate_matches(matches)
      kept   == {unique[i] : i \in 1..Len(unique)}
  IN /\ kept \subseteq Candidates
     /\ NoSharedSpan(unique)
     /\ \A m \in Candidates :
          \E n \in kept :
            /\ Key(n) = Key(m)
            /\ n.confidence >= m.confidence
     /\ \A m, n \in Candidates :
          Overlap(m, n) => \E x, y \in kept : Key(x) = Key(m) /\ Key(y) = Key(n)

\* C5 witness: a scanned candidate list with two candidates of one span and
\* different confidences, and two candidates whose spans overlap.
C5_Witness ==
  /\ Scanned
  /\ \E m, n \in Candidates : Key(m) = Key(n) /\ m.confidence < n.confidence
  /\ \E m, n \in Candidates : Overlap(m, n)

\* C6 (as claimed): the matches of a report are in order of descending
\* confidence, equal confidences in order of ascending start offset.
C6_TiesByStart ==
  Done =>
    \A i, j \in 1..Len(report.matches) :
      i < j =>
        LET m == report.matches[i]
            n == report.matches[j]
        IN \/ m.confidence > n.confidence
           \/ m.confidence = n.confidence /\ m.position.start <= n.position.start

\* the scan yields m before n
ScannedBefore(m, n) ==
  \/ PatternOf(m) < PatternOf(n)
  \/ PatternOf(m) = PatternOf(n) /\ m.position.start < n.position.start

\* C6 (amended): the matches of a report are in order of descending
\* confidence, equal confidences in the order in which the scan found them:
\* by the catalog position of the pattern, then by ascending start offset.
C6_TiesByScanOrder ==
  Done =>
    \A i, j \in 1..Len(report.matches) :
      i < j =>
        LET m == report.matches[i]
            n == report.matches[j]
        IN \/ m.confidence > n.confidence
           \/ m.confidence = n.confidence /\ ScannedBefore(m, n)

\* C6 witness: a report in which, of two matches of equal confidence, the
\* one that starts later comes first.
C6_Witness ==
  /\ Done
  /\ \E i, j \in 1..Len(report.matches) :
       /\ i < j
       /\ report.matches[i].confidence = report.matches[j].confidence
       /\ report.matches[i].position.start > report.matches[j].position.start

\* C7 (as claimed): a credit-card occurrence that passes the Luhn check is
\* reported with exactly the base confidence of the pattern that matched it.
C7_ValidCardAtBase ==
  Done =>
    \A m \in Reported :
      (m.category = "credit_card" /\ _validate_luhn(m.matched_text))
        => m.confidence = Base(m)

\* the loop body has just handled the occurrence match of pattern tuple at
Handled      == pc = "for_match"
HandledText  == Slice(text, match.start, match.end)
HandledFails == CategoryAt(at) = "credit_card" /\ ~_validate_luhn(HandledText)
\* the occurrence handled was appended to matches
Appended ==
  /\ matches # <<>>
  /\ matches[Len(matches)].position = match
  /\ matches[Len(matches)].category = CategoryAt(at)
  /\ matches[Len(matches)].description = TupleAt(at).description
\* the numbers conf1 and conf2 are equal
SameConf(conf1, conf2) == conf1.n * 2^(conf2.h) = conf2.n * 2^(conf1.h)

\* C8 (as claimed): a credit-card candidate that fails the Luhn check gets
\* its base confidence multiplied by 0.5 and is discarded iff that value is
\* below 0.5; a candidate of another category keeps its confidence.
C8_HalfOfBase ==
  Handled =>
    LET base == Conf(TupleAt(at).confidence)
    IN IF HandledFails
       THEN /\ SameConf(confidence, Penalize(base))
            /\ ~Appended <=> BelowFloor(Penalize(base))
       ELSE CategoryAt(at) # "credit_card" =>
              /\ Appended
              /\ matches[Len(matches)].confidence = TupleAt(at).confidence

\* what C9 says of a string s
LuhnClaimed(s) ==
  LET digits == StripSep(s)
  IN /\ \A i \in 1..Len(digits) : digits[i] \in Digit
     /\ Len(digits) >= 13
     /\ LuhnTotal(digits, 0) % 10 = 0

\* C9 (as claimed): _validate_luhn(s) never raises; it returns true exactly
\* when s without '-' and whitespace is all digits, has at least 13 of them
\* and has a Luhn sum that is a multiple of 10; separators do not matter.
C9_LuhnTotalFunction ==
  luhn_result # "none" =>
    /\ luhn_result \in {"True", "False"}
    /\ luhn_result = "True" <=> LuhnClaimed(luhn_arg)
    /\ luhn_result = LuhnOutcome(StripSep(luhn_arg))

\* C10: the confidence of every match of a report is between 0 and 1 and
\* is not greater than the base confidence of the pattern that produced it.
C10_ConfidenceBounded ==
  Done =>
    \A m \in Reported :
      /\ 0 <= m.confidence /\ m.confidence <= 100
      /\ Producers(m) # {}
      /\ \A i \in Producers(m) : m.confidence <= TupleAt(i).confidence

\* C10 witness: a report with a match below the base confidence of its pattern.
C10_Witness ==
  Done /\ \E m \in Reported : m.confidence < Base(m)

\* the categories listed in the report
Listed == {report.categories[i] : i \in 1..Len(report.categories)}

\* C11 (as claimed): the categories field of a report is exactly the set of
\* the categories of the matches listed in the report.
C11_CategoriesOfReported ==
  Done => Listed = {m.category : m \in Reported}

\* the offsets at which a Visa-format number that passes the Luhn check and
\* stands between word boundaries starts in txt
ValidVisaStarts(txt) ==
  {p \in 0..Len(txt) :
     \E i \in 1..Len(Ends(credit_card[1].pattern, txt, p)) :
       LuhnClaimed(Slice(txt, p, Ends(credit_card[1].pattern, txt, p)[i]))}

\* C12 (as claimed): a text that contains a word-delimited 16-digit
\* Visa-format number that passes the Luhn check gives
\* has_sensitive_data = true, "credit_card" among the categories and the
\* level CRITICAL.
C12_ValidVisaDetected ==
  (Done /\ ValidVisaStarts(text) # {}) =>
    /\ report.has_sensitive_data
    /\ "credit_card" \in Listed
    /\ report.sensitivity_level = CRITICAL

\* the fragments that are ordinary words or short numbers and hold no
\* keyword of the catalog
PlainFragments == {7, 8, 10}
PlainTexts ==
  {Join(ids) : ids \in UNION {[1..n -> PlainFragments] : n \in 0..MaxFrags}}

\* C13 (as claimed): a text of ordinary words and short numbers gives
\* has_sensitive_data = false, the level NONE and no category; a word of 8
\* letters alone produces no match.
C13_PlainTextClean ==
  (Done /\ text \in PlainTexts) =>
    /\ ~report.has_sensitive_data
    /\ report.sensitivity_level = NONE
    /\ report.categories = <<>>
    /\ report.matches = <<>>

\* the digits of a string, in order, and the last four of them
DigitsOf(s)   == SelectSeq(s, LAMBDA ch : ch \in Digit)
LastFourDigits(s) == SubSeq(DigitsOf(s), Len(DigitsOf(s)) - 3, Len(DigitsOf(s)))
CardPrefix  == <<"*","*","*","*","-","*","*","*","*","-","*","*","*","*","-">>
PhonePrefix == <<"*","*","*","-","*","*","*","-">>

\* C14: the masked text of a credit-card match is "****-****-****-" followed
\* by the last four digits of the matched text; these four are the only
\* digits in the masked text.
C14_CardMask ==
  \A m \in Candidates :
    m.category = "credit_card" =>
      /\ Len(DigitsOf(Raw(m))) >= 4
      /\ SelectSeq(Raw(m), LAMBDA ch : ch # "-" /\ ch \notin Space) = DigitsOf(Raw(m))
      /\ m.masked_text = CardPrefix \o LastFourDigits(Raw(m))
      /\ Len(DigitsOf(m.masked_text)) = 4

\* C14 witness: a credit-card match whose text holds separators.
C14_Witness ==
  \E m \in Candidates :
    /\ m.category = "credit_card"
    /\ \E i \in 1..Len(Raw(m)) : Raw(m)[i] = "-"

\* C17 (as claimed): the masked text of a phone match is "***-***-" followed
\* by exactly four digits, the last four digits of the matched text.
C17_PhoneMask ==
  \A m \in Candidates :
    m.category = "phone" =>
      /\ Len(DigitsOf(Raw(m))) >= 4
      /\ m.masked_text = PhonePrefix \o LastFourDigits(Raw(m))

\* the advice for the tiers below CRITICAL
TierAdvice(level) ==
  CASE level = NONE   -> "No sensitive data detected. Safe to send."
    [] level = LOW    -> "Low sensitivity data detected. Consider if the recipient needs this information."
    [] level = MEDIUM -> "Medium sensitivity data detected. Verify you trust the recipient before sending."
    [] level = HIGH   -> "High sensitivity data detected! Only send if absolutely necessary and to trusted recipients."

Named == {report.recommendation.categories[i] : i \in 1..Len(report.recommendation.categories)}

\* C18 (as claimed): below CRITICAL the recommendation is the advice of the
\* overall tier and names no category; at CRITICAL it names at most three
\* categories, each of which has a CRITICAL-tier match in the report.
C18_NamesOffendingCategories ==
  Done =>
    IF report.sensitivity_level # CRITICAL
    THEN /\ report.recommendation.text = TierAdvice(report.sensitivity_level)
         /\ report.recommendation.categories = <<>>
    ELSE /\ Len(report.recommendation.categories) <= 3
         /\ \A c \in Named : \E m \in Reported : m.category = c /\ m.sensitivity = CRITICAL

Masked == mask_category # "none" /\ mask_result.raised = ""
FullyMasked == {"password", "pin", "api_key", "cvv"}
Dedicated   == {"credit_card", "phone", "ssn", "email"} \cup FullyMasked
OnlyStars(s) == \A i \in 1..Len(s) : s[i] = "*"

\* C15: for the categories password, pin, api_key and cvv, _mask_text returns
\* only '*' characters, as many as the text has characters but at most 12; no
\* character of the text is carried into the result.
C15_FullMask ==
  mask_category \in FullyMasked =>
    /\ Masked
    /\ OnlyStars(mask_result.returned)
    /\ Len(mask_result.returned) = (IF Len(mask_arg) <= 12 THEN Len(mask_arg) ELSE 12)
    /\ \A i \in 1..Len(mask_arg) :
         mask_arg[i] # "*" => \A j \in 1..Len(mask_result.returned) : mask_result.returned[j] # mask_arg[i]

\* C15 witness: a fully masked text of more than 12 characters.
C15_Witness ==
  mask_category \in FullyMasked /\ Masked /\ Len(mask_arg) > 12

\* C16: for a category without a masking policy of its own, _mask_text
\* returns a string as long as the text: the first 2 characters, stars, and
\* the last 2 characters when the text has more than 4 characters, and only
\* stars when it has 4 or fewer.
C16_DefaultMask ==
  (mask_category \notin Dedicated /\ mask_category # "none") =>
    /\ Masked
    /\ Len(mask_result.returned) = Len(mask_arg)
    /\ IF Len(mask_arg) > 4
       THEN /\ \A i \in {1, 2, Len(mask_arg) - 1, Len(mask_arg)} : mask_result.returned[i] = mask_arg[i]
            /\ \A i \in 3..(Len(mask_arg) - 2) : mask_result.returned[i] = "*"
       ELSE OnlyStars(mask_result.returned)

\* C16 witness: a text of exactly 4 characters, none of them a star, masked
\* under the default policy.
C16_Witness ==
  /\ mask_category \notin Dedicated /\ mask_category # "none"
  /\ Masked /\ Len(mask_arg) = 4 /\ \A i \in 1..4 : mask_arg[i] # "*"

\* C19 (as claimed): analyze never raises; for the empty string and for an
\* argument that is no text it returns the empty report.
C19_NeverRaises ==
  /\ pc # "raised"
  /\ (Done /\ text \in {<<>>, None}) =>
       /\ ~report.has_sensitive_data
       /\ report.sensitivity_level = NONE
       /\ report.matches = <<>>

\* C20: analyze leaves the pattern catalog of the detector as the constructor
\* built it, and every call on the shared detector, whether it ran alone,
\* after other calls or interleaved with a call of another thread, returns
\* the report that a fresh detector returns for its text.
C20_SharedDetector ==
  /\ self_patterns = Order
  /\ Done => report = FreshReport(text, hash_seed)
  /\ suspended.pc = "done" => suspended.report = FreshReport(suspended.text, hash_seed)

\* C20 witness: a call returns a report with matches while the call of the
\* other thread, on another text, is between two of its appends.
C20_Witness ==
  /\ Done /\ report.matches # <<>>
  /\ suspended.pc = "for_match"
  /\ suspended.matches # <<>>
  /\ suspended.text # text

\* the word "confidential" of fragment 12 lies at the offsets 8 to 20
OnMarker(m) == m.position.start < 20 /\ m.position.end > 8

\* C21 (as claimed): the catalog has a grammar for confidentiality markers:
\* the report for "This is confidential information about our salary
\* structure" holds a match on the word "confidential".
C21_ConfidentialityMarker ==
  (Done /\ text = Join(<<12>>)) => \E m \in Reported : OnMarker(m)

\* C26: every credit_card match, in the list matches and in the report,
\* is on a number that passes the Luhn check.
C26_ReportedCardsPassLuhn ==
  \A m \in Candidates \cup Reported :
    m.category = "credit_card" => LuhnClaimed(Raw(m))

\* C26 witness: a report with a credit_card match for a text that also holds
\* a card number failing the check, which a credit-card pattern matched.
C26_Witness ==
  /\ Done
  /\ \E m \in Reported : m.category = "credit_card"
  /\ \E i \in 1..Len(Order) :
       /\ CategoryAt(i) = "credit_card"
       /\ \E k \in 1..Len(finditer(TupleAt(i).pattern, text)) :
            ~LuhnClaimed(Slice(text, finditer(TupleAt(i).pattern, text)[k].start,
                                     finditer(TupleAt(i).pattern, text)[k].end))

Answered == scan_response.status = 200

\* the tier that a label of the score view names
LabelTier(label) ==
  CASE label = SAFE       -> NONE
    [] label = "LOW"      -> LOW
    [] label = "MEDIUM"   -> MEDIUM
    [] label = "HIGH"     -> HIGH
    [] label = "CRITICAL" -> CRITICAL

\* C22 (as claimed): for every list of detections the label of the score
\* view names the tier of the tier view, the highest tier among them; without
\* detections the label is SAFE and the tier NONE.
C22_ViewsAgree ==
  Answered => LabelTier(scan_response.risk_level) = Highest(detections, NONE)

C27_BlankTextIs400 ==
  (scan_response.status # 0 /\ Blank(scan_request)) => scan_response.status = 400

\* the rows of the table alerts, and the request that check_dlp just served
AlertIds     == 1..Len(alerts)
Checked      == request.endpoint = "check_dlp" /\ response.status # 0
\* needle occurs in txt as a contiguous run of characters
Within(needle, txt) ==
  \E k \in 0..(Len(txt) - Len(needle)) : Slice(txt, k, k + Len(needle)) = needle

\* C24: a check_dlp call is answered 503 exactly when the global detector is
\* still None at the call; once startup has set it, it is never None again,
\* so no later check_dlp call is answered 503.
C24_Unavailable503 ==
  [][/\ (/\ request'.endpoint = "check_dlp"
         /\ <<request, response, alerts>>' # <<request, response, alerts>>)
          => ((response'.status = 503) <=> (dlp_detector = "None"))
     /\ dlp_detector # "None" => dlp_detector' # "None"
     /\ (dlp_detector # "None" /\ response' # response) => response'.status # 503]_vars

\* C24 witness: after startup a second check_dlp call, with a message that
\* holds sensitive data, has been answered 200.
C24_Witness ==
  /\ Checked /\ response.status = 200 /\ Len(alerts) > 1
  /\ alerts[response.alert_id].has_sensitive_data
  /\ dlp_detector = "DLPDetector"

\* C25 (as claimed): no stored field of the alert that check_dlp persisted
\* for a message contains the unmasked text of a datum detected in it.
C25_RedactedRecord ==
  (Checked /\ response.status = 200) =>
    LET alert == alerts[response.alert_id]
        found == alert.dlp_matches
    IN \A i \in 1..Len(found) :
         LET datum == Slice(request.message, found[i].position.start,
                            found[i].position.end)
         IN /\ ~Within(datum, alert.message_preview)
            /\ ~Within(datum, alert.full_message)
            /\ \A j \in 1..Len(found) : \A f \in TextFields : ~Within(datum, found[j][f])

\* C28 (as claimed): a push is scheduled only for an alert with sensitive
\* data and a supplied device token, and an alert has notification_sent
\* only if send_push_notification returned True for it.
C28_SentMeansDelivered ==
  /\ \A i \in 1..Len(tasks) :
       /\ alerts[tasks[i].alert_id].has_sensitive_data
       /\ Supplied(alerts[tasks[i].alert_id].device_token)
  /\ \A p \in pushes :
       /\ alerts[p.alert_id].has_sensitive_data
       /\ Supplied(alerts[p.alert_id].device_token)
  /\ \A id \in AlertIds :
       alerts[id].notification_sent =>
         [alert_id |-> id, returned |-> TRUE] \in pushes

\* C29: an alert's user_action is unset or one of allowed, blocked, reported;
\* a get_alert_detail or update_alert_action call with another user_id than
\* the alert's gets 404, one of the owner with another action gets 400, both
\* leave the table unchanged, and an alert is changed or returned only by a
\* call that carries its user_id.
C29_OwnerOnly ==
  /\ [](\A id \in AlertIds :
          alerts[id].user_action \in {"None", "allowed", "blocked", "reported"})
  /\ [][request'.endpoint \in {"get_alert_detail", "update_alert_action"} =>
          \A id \in AlertIds :
            LET owner   == alerts[id].user_id
                foreign == request'.alert_id = id /\ request'.user_id # owner
                invalid == /\ request'.endpoint = "update_alert_action"
                           /\ request'.alert_id = id /\ request'.user_id = owner
                           /\ request'.action \notin {"allowed", "blocked", "reported"}
            IN /\ foreign => (response'.status = 404 /\ alerts' = alerts)
               /\ invalid => (response'.status = 400 /\ alerts' = alerts)
               /\ alerts'[id] # alerts[id] =>
                    (request'.alert_id = id /\ request'.user_id = owner)
               /\ (response'.status = 200 /\ response'.alert_id = id) =>
                    request'.user_id = owner]_vars

\* C29 witness: an alert whose owner has blocked it, and the other user's
\* update of it was just answered 404.
C29_Witness ==
  /\ request.endpoint = "update_alert_action" /\ response.status = 404
  /\ request.alert_id \in AlertIds
  /\ alerts[request.alert_id].user_id # request.user_id
  /\ alerts[request.alert_id].user_action = "blocked"
  /\ request.action = "allowed"

\* the rows of user_devices and the registrations served with a device_token
RowsOf(token) == {i \in 1..Len(user_devices) : user_devices[i].device_token = token}
RegsOf(token) == {k \in 1..Len(registered) : registered[k].device_token = token}

\* C30: user_devices holds at most one row per device_token, and exactly
\* one for a token that was registered; its user_id is that of the last
\* registration of the token and its platform that of the first.
C30_OneRowPerToken ==
  \A token \in {"tok1", "tok2"} :
    LET regs  == RegsOf(token)
        first == CHOOSE k \in regs : \A j \in regs : k <= j
        last  == CHOOSE k \in regs : \A j \in regs : j <= k
    IN /\ Cardinality(RowsOf(token)) <= 1
       /\ regs = {} => RowsOf(token) = {}
       /\ regs # {} =>
            \E i \in RowsOf(token) :
              /\ user_devices[i].user_id = registered[last].user_id
              /\ user_devices[i].platform = registered[first].platform

\* C30 witness: a token registered again by another user from another
\* platform, while the table holds a second token.
C30_Witness ==
  /\ Len(user_devices) = 2
  /\ \E token \in {"tok1", "tok2"} : \E k, l \in RegsOf(token) :
       /\ k < l
       /\ registered[k].user_id # registered[l].user_id
       /\ registered[k].platform # registered[l].platform

====
